---- MODULE Spec2Model ----
(***************************************************************************)
(* Model of src/app/page.tsx: the TypeWriterText effect loop and the Home /*)
(* ProjectModal open-close lifecycle, as driven by the browser event loop  *)
(* and React's render / passive-effect cycle.                              *)
(*                                                                         *)
(* Scheduling: a state update made inside a discrete input handler (click, *)
(* keydown) is rendered and its passive effects are flushed before the     *)
(* next event is dispatched; a state update made inside a timer callback   *)
(* is rendered at once but its passive effects are flushed in a later task *)
(* (FlushPassiveEffects), or by the next discrete update, whichever comes  *)
(* first.                                                                  *)
(***************************************************************************)
EXTENDS Integers, Sequences, FiniteSets, TLC

(* ---------- bounds ---------- *)
MaxLen == 2
MaxTexts == 2
NumProjects == 2
MaxCloseTimers == 2

Alphabet == {"a", "b"}
Strings == UNION {[1..n -> Alphabet] : n \in 0..MaxLen}
TextsSet == UNION {[1..n -> Strings] : n \in 0..MaxTexts}
Projects == 1..NumProjects
Keys == {"Escape", "Enter"}

(* ---------- JavaScript values ---------- *)
None == 0
NaN == -1
NoTimer == {}

VARIABLES
  texts,              \* TypeWriterText prop
  displayText,        \* useState("")
  currentIndex,       \* useState(0), 0-based
  isDeleting,         \* useState(false)
  timeout,            \* pending tick timer: NoTimer or {the closure it captured}
  delayTimers,        \* number of pending pause timers
  delayLive,          \* delayTimer.current names a pending pause timer
  threw,              \* a timer or frame callback raised a TypeError
  twEffectPending,    \* TypeWriterText committed a render whose effect has not run
  selectedProject,    \* Home useState<Project | null>(null)
  isModalOpen,        \* Home useState(false)
  closeTimers,        \* number of pending close-delay timers
  overflow,           \* document.body.style.overflow
  listeners,          \* number of installed keydown listeners
  effectOpen,         \* isOpen captured by the ProjectModal effect that last ran
  modalEffectPending, \* ProjectModal committed a render whose effect has not run
  mounted,            \* the page component tree is mounted
  rafPending,         \* a requestAnimationFrame focus callback is queued
  focus,              \* the element holding keyboard focus
  lastOp              \* history: the last operation and its argument

twVars == <<displayText, currentIndex, isDeleting>>
modalState == <<isModalOpen, selectedProject>>
\* Everything but the history variable.
progVars == <<texts, displayText, currentIndex, isDeleting, timeout, delayTimers,
              delayLive, threw, twEffectPending, selectedProject, isModalOpen,
              closeTimers, overflow, listeners, effectOpen, modalEffectPending,
              mounted, rafPending, focus>>
vars == <<texts, displayText, currentIndex, isDeleting, timeout, delayTimers,
          delayLive, threw, twEffectPending, selectedProject, isModalOpen,
          closeTimers, overflow, listeners, effectOpen, modalEffectPending,
          mounted, rafPending, focus, lastOp>>

(* ---------- pure helpers ---------- *)
Min(a, b) == IF a < b THEN a ELSE b
Max(a, b) == IF a > b THEN a ELSE b

\* String.prototype.substring(start, end): both clamped to 0..length, swapped
\* when start > end.
substring(s, start, end) ==
  LET a == Max(0, Min(start, Len(s)))
      b == Max(0, Min(end, Len(s)))
  IN  SubSeq(s, Min(a, b) + 1, Max(a, b))

\* texts[i] with a 0-based index: defined only inside the array, undefined
\* (no .length to read) outside it.
hasText(t, i) == i \in 0..(Len(t) - 1)
textAt(t, i) == t[i + 1]

\* Mutant of nextIndex: the index is advanced without wrapping.
nextIndex_NoWrap(prev, t) == prev + 1

\* (prev + 1) % texts.length
nextIndex(prev, t) ==
  IF Len(t) = 0 \/ prev = NaN THEN NaN ELSE (prev + 1) % Len(t)

IsPrefix(p, s) == Len(p) <= Len(s) /\ SubSeq(s, 1, Len(p)) = p

(* ---------- TypeWriterText effect ---------- *)
\* The closure captured by the tick callback scheduled in an effect run.
TickClosure(dt, idx, del) ==
  [displayText |-> dt, currentIndex |-> idx, isDeleting |-> del]

\* Mutant of twCleanupDelay: the cleanup leaves the pause timer pending.
twCleanupDelay_Keep(n, live) == n

\* Effect cleanup: clearTimeout(timeout); if (delayTimer.current)
\* clearTimeout(delayTimer.current).  Returns the pause timers left pending.
twCleanupDelay(n, live) == IF live THEN n - 1 ELSE n

(* ---------- ProjectModal effect ---------- *)
\* Mutant of modalCleanupListeners: the cleanup does not remove the listener.
modalCleanupListeners_Keep(n, wasOpen) == n

\* Cleanup of the effect run that captured isOpen = wasOpen.
modalCleanupListeners(n, wasOpen) == IF wasOpen THEN n - 1 ELSE n

\* Mutant of modalEffectListeners: the listener is added whatever isOpen is.
modalEffectListeners_Always(n, open) == n + 1

\* Mutant of modalEffectOverflow: the scroll lock is never released.
modalEffectOverflow_Stuck(open) == "hidden"

\* Body of the effect for isOpen = open, after the previous cleanup.
modalEffectOverflow(open) == IF open THEN "hidden" ELSE "unset"
modalEffectListeners(n, open) == IF open THEN n + 1 ELSE n

\* requestAnimationFrame(() => closeBtnRef.current?.focus()) when isOpen.
modalEffectRaf(pending, open) == pending \/ open

\* if (!isOpen || !project) return null: the dialog, and with it the close
\* button closeBtnRef points at, is rendered only for an open modal with a
\* project.
dialogRendered(open, project) == open /\ project # None

\* Focus after a render: a focused close button that is no longer rendered
\* loses focus to the page.
focusAfterRender(f, open, project) ==
  IF f = "closeBtn" /\ ~dialogRendered(open, project) THEN "page" ELSE f

\* Mutant of RunTwEffect: the cleanup clears the tick timer only.
RunTwEffect_LeakDelay(dt, idx, del) ==
  /\ timeout' = {TickClosure(dt, idx, del)}
  /\ delayTimers' = delayTimers
  /\ delayLive' = delayLive
  /\ twEffectPending' = FALSE

\* Effect run for the render that shows (dt, idx, del): the previous cleanup,
\* then window.setTimeout(tick, ...).
RunTwEffect(dt, idx, del) ==
  /\ timeout' = {TickClosure(dt, idx, del)}
  /\ delayTimers' = twCleanupDelay(delayTimers, delayLive)
  /\ delayLive' = FALSE
  /\ twEffectPending' = FALSE

\* Cleanup then body of the ProjectModal effect for isOpen = open.
RunModalEffect(open) ==
  /\ overflow' = modalEffectOverflow(open)
  /\ listeners' = modalEffectListeners(modalCleanupListeners(listeners, effectOpen), open)
  /\ effectOpen' = open
  /\ modalEffectPending' = FALSE
  /\ rafPending' = modalEffectRaf(rafPending, open)

\* History record of a step: the operation, its argument, and the ModalState
\* it was applied to.
Op(name, arg) ==
  [op |-> name, arg |-> arg, wasOpen |-> isModalOpen,
   wasSelected |-> selectedProject]
BoolArg(b) == IF b THEN 1 ELSE 0

(* ---------- initial state: mounted, first effects have run ---------- *)
Init ==
  /\ texts \in TextsSet
  /\ displayText = <<>>
  /\ currentIndex = 0
  /\ isDeleting = FALSE
  /\ timeout = {TickClosure(<<>>, 0, FALSE)}
  /\ delayTimers = 0
  /\ delayLive = FALSE
  /\ threw = FALSE
  /\ twEffectPending = FALSE
  /\ selectedProject = None
  /\ isModalOpen = FALSE
  /\ closeTimers = 0
  /\ overflow = "unset"
  /\ listeners = 0
  /\ effectOpen = FALSE
  /\ modalEffectPending = FALSE
  /\ mounted = TRUE
  /\ rafPending = FALSE
  /\ focus = "page"
  /\ lastOp = Op("init", 0)

(* ---------- TypeWriterText ---------- *)
\* Mutant of tickDisplayText: deleting drops the first character.
tickDisplayText_DropFirst(c) ==
  IF ~c.isDeleting
  THEN IF Len(c.displayText) < Len(textAt(texts, c.currentIndex))
       THEN substring(textAt(texts, c.currentIndex), 0, Len(c.displayText) + 1)
       ELSE displayText
  ELSE IF Len(c.displayText) > 0
       THEN substring(c.displayText, 1, Len(c.displayText))
       ELSE displayText

\* Mutant of tickDisplayText: typing appends two characters per tick.
tickDisplayText_SkipChar(c) ==
  IF ~c.isDeleting
  THEN IF Len(c.displayText) < Len(textAt(texts, c.currentIndex))
       THEN substring(textAt(texts, c.currentIndex), 0, Len(c.displayText) + 2)
       ELSE displayText
  ELSE IF Len(c.displayText) > 0
       THEN substring(c.displayText, 0, Len(c.displayText) - 1)
       ELSE displayText

\* The state the tick callback's setters leave, given its closure c.
\* setState on an unmounted component is ignored.
tickDisplayText(c) ==
  IF ~c.isDeleting
  THEN IF Len(c.displayText) < Len(textAt(texts, c.currentIndex))
       THEN substring(textAt(texts, c.currentIndex), 0, Len(c.displayText) + 1)
       ELSE displayText
  ELSE IF Len(c.displayText) > 0
       THEN substring(c.displayText, 0, Len(c.displayText) - 1)
       ELSE displayText

tickIsDeleting(c) ==
  IF c.isDeleting /\ Len(c.displayText) = 0 THEN FALSE ELSE isDeleting

tickCurrentIndex(c) ==
  IF c.isDeleting /\ Len(c.displayText) = 0
  THEN nextIndex(currentIndex, texts)
  ELSE currentIndex

\* Mutant of tickArmsPause: the pause starts one character early.
tickArmsPause_Early(c) ==
  /\ ~c.isDeleting
  /\ ~(Len(c.displayText) + 1 < Len(textAt(texts, c.currentIndex)))

\* The tick arms the pause timer: typing phase, text complete.
tickArmsPause(c) ==
  /\ ~c.isDeleting
  /\ ~(Len(c.displayText) < Len(textAt(texts, c.currentIndex)))

\* currentText is undefined and the typing branch reads currentText.length.
tickThrows(c) == ~c.isDeleting /\ ~hasText(texts, c.currentIndex)

\* The tick callback with closure c.
TickRun(c) ==
  /\ timeout' = NoTimer
  /\ lastOp' = Op("tick", 0)
  /\ UNCHANGED <<texts, selectedProject, isModalOpen, closeTimers, overflow,
                 listeners, effectOpen, modalEffectPending, mounted,
                 rafPending, focus>>
  /\ IF tickThrows(c)
     THEN /\ threw' = TRUE
          /\ UNCHANGED <<displayText, currentIndex, isDeleting, delayTimers,
                         delayLive, twEffectPending>>
     ELSE /\ threw' = threw
          /\ IF tickArmsPause(c)
             THEN /\ delayTimers' = delayTimers + 1
                  /\ delayLive' = TRUE
                  /\ UNCHANGED <<displayText, currentIndex, isDeleting,
                                 twEffectPending>>
             ELSE /\ UNCHANGED <<delayTimers, delayLive>>
                  /\ IF mounted
                     THEN /\ displayText' = tickDisplayText(c)
                          /\ isDeleting' = tickIsDeleting(c)
                          /\ currentIndex' = tickCurrentIndex(c)
                          /\ twEffectPending' =
                               (twEffectPending \/ twVars' # twVars)
                     ELSE UNCHANGED <<displayText, currentIndex, isDeleting,
                                      twEffectPending>>

\* The pending tick timer fires.
TickFire == \E c \in timeout : TickRun(c)

\* () => setIsDeleting(true), fired by a pending pause timer; either the one
\* delayTimer.current names or one it no longer names.
DelayTimerFire ==
  /\ delayTimers > 0
  /\ delayTimers' = delayTimers - 1
  /\ \/ delayLive /\ delayLive' = FALSE
     \/ delayTimers > BoolArg(delayLive) /\ delayLive' = delayLive
  /\ lastOp' = Op("pause", 0)
  /\ IF mounted
     THEN /\ isDeleting' = TRUE
          /\ twEffectPending' = (twEffectPending \/ ~isDeleting)
     ELSE UNCHANGED <<isDeleting, twEffectPending>>
  /\ UNCHANGED <<texts, displayText, currentIndex, timeout, threw,
                 selectedProject, isModalOpen, closeTimers, overflow, listeners,
                 effectOpen, modalEffectPending, mounted, rafPending, focus>>

(* ---------- Home / ProjectModal ---------- *)
\* Home re-rendered inside a discrete event: the inline texts array and
\* handleCloseModal get new identities, so both effects re-run before the
\* event returns.
RenderHomeSync(open) ==
  /\ RunModalEffect(open)
  /\ RunTwEffect(displayText, currentIndex, isDeleting)

NoRender ==
  UNCHANGED <<overflow, listeners, effectOpen, modalEffectPending, rafPending,
              timeout, delayTimers, delayLive, twEffectPending>>

\* Mutant of handleProjectClick: the click toggles the modal.
handleProjectClick_Toggle(p) ==
  /\ mounted
  /\ selectedProject' = p
  /\ isModalOpen' = ~isModalOpen
  /\ RenderHomeSync(~isModalOpen)
  /\ lastOp' = Op("open", p)
  /\ focus' = focusAfterRender(focus, isModalOpen', p)
  /\ UNCHANGED <<texts, displayText, currentIndex, isDeleting, threw,
                 closeTimers, mounted>>

\* handleProjectClick(project), from a ProjectCard click.
handleProjectClick(p) ==
  /\ mounted
  /\ selectedProject' = p
  /\ isModalOpen' = TRUE
  /\ RenderHomeSync(TRUE)
  /\ lastOp' = Op("open", p)
  /\ focus' = focusAfterRender(focus, isModalOpen', p)
  /\ UNCHANGED <<texts, displayText, currentIndex, isDeleting, threw,
                 closeTimers, mounted>>

\* Mutant of CloseCalls: the selection is cleared at once, with no delay.
CloseCalls_ClearNow(n) ==
  /\ closeTimers + n <= MaxCloseTimers
  /\ closeTimers' = closeTimers + n
  /\ selectedProject' = None
  /\ IF mounted /\ isModalOpen
     THEN /\ isModalOpen' = FALSE
          /\ RenderHomeSync(FALSE)
     ELSE /\ isModalOpen' = isModalOpen
          /\ NoRender
  /\ focus' = focusAfterRender(focus, isModalOpen', None)
  /\ UNCHANGED <<texts, displayText, currentIndex, isDeleting, threw, mounted>>

\* handleCloseModal() invoked n times within one event.
CloseCalls(n) ==
  /\ closeTimers + n <= MaxCloseTimers
  /\ closeTimers' = closeTimers + n
  /\ IF mounted /\ isModalOpen
     THEN /\ isModalOpen' = FALSE
          /\ RenderHomeSync(FALSE)
     ELSE /\ isModalOpen' = isModalOpen
          /\ NoRender
  /\ focus' = focusAfterRender(focus, isModalOpen', selectedProject)
  /\ UNCHANGED <<texts, displayText, currentIndex, isDeleting, threw,
                 selectedProject, mounted>>

\* handleCloseModal(), from the backdrop, the close button or any caller of
\* the onClose prop.
handleCloseModal ==
  /\ mounted
  /\ CloseCalls(1)
  /\ lastOp' = Op("close", 0)

\* A keydown event dispatched to every installed onKeyDown listener.
onKeyDown(key) ==
  /\ lastOp' = Op(IF key = "Escape" THEN "escape" ELSE "key", 0)
  /\ IF key = "Escape" /\ listeners > 0
     THEN CloseCalls(listeners)
     ELSE UNCHANGED <<texts, displayText, currentIndex, isDeleting, timeout,
                      delayTimers, delayLive, threw, twEffectPending,
                      selectedProject, isModalOpen, closeTimers, overflow,
                      listeners, effectOpen, modalEffectPending, mounted,
                      rafPending, focus>>

\* () => setSelectedProject(null), 300 ms after a handleCloseModal call.
CloseDelayFire ==
  /\ closeTimers > 0
  /\ closeTimers' = closeTimers - 1
  /\ lastOp' = Op("closeTimer", 0)
  /\ IF mounted /\ selectedProject # None
     THEN /\ selectedProject' = None
          /\ modalEffectPending' = TRUE
          /\ twEffectPending' = TRUE
     ELSE UNCHANGED <<selectedProject, modalEffectPending, twEffectPending>>
  /\ focus' = focusAfterRender(focus, isModalOpen, selectedProject')
  /\ UNCHANGED <<texts, displayText, currentIndex, isDeleting, timeout,
                 delayTimers, delayLive, threw, isModalOpen, overflow,
                 listeners, effectOpen, mounted, rafPending>>

\* React flushes the passive effects of renders committed from timer
\* callbacks.
FlushPassiveEffects ==
  /\ mounted
  /\ modalEffectPending \/ twEffectPending
  /\ IF modalEffectPending
     THEN RunModalEffect(isModalOpen)
     ELSE UNCHANGED <<overflow, listeners, effectOpen, modalEffectPending,
                      rafPending>>
  /\ IF twEffectPending
     THEN RunTwEffect(displayText, currentIndex, isDeleting)
     ELSE UNCHANGED <<timeout, delayTimers, delayLive, twEffectPending>>
  /\ lastOp' = Op("flush", 0)
  /\ UNCHANGED <<texts, displayText, currentIndex, isDeleting, threw,
                 selectedProject, isModalOpen, closeTimers, mounted, focus>>

\* What the TypeWriterText cleanup cancels at unmount: 1 a tick timer, 2 a
\* pause timer, 0 nothing.
Cancelled == IF timeout # NoTimer THEN 1 ELSE IF delayTimers > 0 THEN 2 ELSE 0

\* Mutant of Unmount: the ProjectModal cleanup is skipped.
Unmount_NoModalCleanup ==
  /\ mounted
  /\ mounted' = FALSE
  /\ timeout' = NoTimer
  /\ delayTimers' = twCleanupDelay(delayTimers, delayLive)
  /\ delayLive' = FALSE
  /\ twEffectPending' = FALSE
  /\ modalEffectPending' = FALSE
  /\ lastOp' = Op("unmount", Cancelled)
  /\ focus' = "page"
  /\ UNCHANGED <<texts, displayText, currentIndex, isDeleting, threw,
                 selectedProject, isModalOpen, closeTimers, rafPending,
                 overflow, listeners, effectOpen>>

\* The page is torn down: both effect cleanups run; pending renders are
\* dropped.
Unmount ==
  /\ mounted
  /\ mounted' = FALSE
  /\ timeout' = NoTimer
  /\ delayTimers' = twCleanupDelay(delayTimers, delayLive)
  /\ delayLive' = FALSE
  /\ twEffectPending' = FALSE
  /\ overflow' = "unset"
  /\ listeners' = modalCleanupListeners(listeners, effectOpen)
  /\ effectOpen' = FALSE
  /\ modalEffectPending' = FALSE
  /\ lastOp' = Op("unmount", Cancelled)
  /\ focus' = "page"
  /\ UNCHANGED <<texts, displayText, currentIndex, isDeleting, threw,
                 selectedProject, isModalOpen, closeTimers, rafPending>>

\* Mutant of AnimationFrame: closeBtnRef.current.focus() without the ?. guard.
AnimationFrame_NoGuard ==
  /\ rafPending
  /\ rafPending' = FALSE
  /\ focus' = IF mounted /\ dialogRendered(isModalOpen, selectedProject)
              THEN "closeBtn"
              ELSE focus
  /\ threw' = (threw \/ ~(mounted /\ dialogRendered(isModalOpen, selectedProject)))
  /\ lastOp' = Op("raf", 0)
  /\ UNCHANGED <<texts, displayText, currentIndex, isDeleting, timeout,
                 delayTimers, delayLive, twEffectPending,
                 selectedProject, isModalOpen, closeTimers, overflow,
                 listeners, effectOpen, modalEffectPending, mounted>>

\* The next animation frame runs the queued focus callbacks:
\* closeBtnRef.current?.focus() moves focus if the close button is mounted
\* and does nothing if the ref is null.
AnimationFrame ==
  /\ rafPending
  /\ rafPending' = FALSE
  /\ focus' = IF mounted /\ dialogRendered(isModalOpen, selectedProject)
              THEN "closeBtn"
              ELSE focus
  /\ lastOp' = Op("raf", 0)
  /\ UNCHANGED <<texts, displayText, currentIndex, isDeleting, timeout,
                 delayTimers, delayLive, threw, twEffectPending,
                 selectedProject, isModalOpen, closeTimers, overflow,
                 listeners, effectOpen, modalEffectPending, mounted>>

Next ==
  \/ TickFire
  \/ DelayTimerFire
  \/ \E p \in Projects : handleProjectClick(p)
  \/ handleCloseModal
  \/ \E key \in Keys : onKeyDown(key)
  \/ CloseDelayFire
  \/ FlushPassiveEffects
  \/ AnimationFrame
  \/ Unmount

Spec == Init /\ [][Next]_vars

\* Every pending timer, frame callback and passive-effect flush eventually
\* runs unless it is cancelled first.
LiveSpec ==
  /\ Spec
  /\ WF_vars(TickFire)
  /\ WF_vars(DelayTimerFire)
  /\ WF_vars(CloseDelayFire)
  /\ WF_vars(FlushPassiveEffects)
  /\ WF_vars(AnimationFrame)

FairSpec == Spec /\ WF_vars(CloseDelayFire)

TypeOK ==
  /\ texts \in TextsSet
  /\ displayText \in Strings
  /\ currentIndex \in 0..MaxTexts \cup {NaN}
  /\ isDeleting \in BOOLEAN
  /\ delayTimers \in 0..1
  /\ closeTimers \in 0..MaxCloseTimers
  /\ overflow \in {"hidden", "unset"}
  /\ listeners \in 0..1
  /\ selectedProject \in Projects \cup {None}
  /\ rafPending \in BOOLEAN
  /\ focus \in {"page", "closeBtn"}

currentText == textAt(texts, currentIndex)

(* ---------- C1 ---------- *)
\* C1: in every reachable state, isOpen = true implies selectedProject # none.
C1_OpenImpliesSelected == isModalOpen => selectedProject # None

C3_TeardownCancelsTimers ==
  /\ [](~mounted => (timeout = NoTimer /\ delayTimers = 0))
  /\ [][~mounted => UNCHANGED twVars]_vars

\* Torn down during the pause before deleting: the pause timer was cancelled.
C3_Witness ==
  /\ ~mounted
  /\ lastOp.op = "unmount"
  /\ lastOp.arg = 2
  /\ Len(displayText) > 0

(* ---------- C4 ---------- *)
\* C4: for non-empty texts, currentIndex is in 0..length(texts)-1 and
\* displayText is a prefix of texts[currentIndex]; currentIndex changes only
\* at a step where displayText is empty.
C4_PrefixInRange ==
  /\ [](Len(texts) > 0 =>
          /\ currentIndex \in 0..(Len(texts) - 1)
          /\ IsPrefix(displayText, currentText)
          /\ Len(displayText) \in 0..Len(currentText))
  /\ [][(Len(texts) > 0 /\ currentIndex' # currentIndex) =>
          (displayText = <<>> /\ displayText' = <<>>)]_vars

\* A proper, non-empty prefix of the second string is displayed while deleting.
C4_Witness ==
  /\ Len(texts) = 2
  /\ currentIndex = 1
  /\ isDeleting
  /\ Len(displayText) = 1
  /\ Len(currentText) = 2

(* ---------- C5 ---------- *)
\* C5: for non-empty texts, a step in the typing phase either leaves
\* displayText unchanged or appends exactly the next character of
\* texts[currentIndex]; a step in the deleting phase either leaves it
\* unchanged or removes exactly its last character; a deleting tick on the
\* empty text leaves it empty and advances the index.
C5_OneCharPerStep ==
  [][Len(texts) > 0 =>
       /\ ~isDeleting =>
            \/ displayText' = displayText
            \/ /\ Len(displayText) < Len(currentText)
               /\ displayText' = SubSeq(currentText, 1, Len(displayText) + 1)
       /\ isDeleting =>
            \/ displayText' = displayText
            \/ /\ Len(displayText) > 0
               /\ displayText' = SubSeq(displayText, 1, Len(displayText) - 1)
       /\ (isDeleting /\ displayText = <<>> /\ mounted /\ lastOp'.op = "tick") =>
            /\ displayText' = <<>>
            /\ currentIndex' = (currentIndex + 1) % Len(texts)]_vars

\* A deleting tick has just removed the second character of a 2-character
\* string.
C5_Witness ==
  /\ lastOp.op = "tick"
  /\ isDeleting
  /\ twEffectPending
  /\ Len(currentText) = 2
  /\ Len(displayText) = 1

(* ---------- C6 ---------- *)
\* C6: close() sets isOpen = false in its own step and leaves selectedProject
\* as it was; selectedProject is cleared only by a close-delay timer firing,
\* and a firing timer does clear it; after a close(), unless the modal is
\* re-opened or the page torn down, the state eventually is
\* (isOpen = false, selectedProject = none).
C6_CloseThenClear ==
  /\ [][lastOp'.op = "close" =>
          (~isModalOpen' /\ selectedProject' = selectedProject)]_vars
  /\ [][(selectedProject # None /\ selectedProject' = None) =>
          lastOp'.op = "closeTimer"]_vars
  /\ [][(lastOp'.op = "closeTimer" /\ mounted) => selectedProject' = None]_vars
  /\ [](lastOp.op = "close" =>
          <>(\/ ~isModalOpen /\ selectedProject = None
             \/ lastOp.op = "open"
             \/ ~mounted))

\* The close-delay timer of a closed modal has just cleared the project that
\* was still selected.
C6_Witness ==
  /\ lastOp.op = "closeTimer"
  /\ ~lastOp.wasOpen
  /\ lastOp.wasSelected # None
  /\ ~isModalOpen
  /\ selectedProject = None
  /\ closeTimers = 0

(* ---------- C7 ---------- *)
\* C7: close() when isOpen is already false is a no-op: it changes neither
\* ModalState nor the pending close-delay timers, so nothing it leaves
\* behind can change ModalState later.
C7_CloseWhenClosedNoOp ==
  [][(lastOp'.op = "close" /\ ~isModalOpen) =>
       UNCHANGED <<isModalOpen, selectedProject, closeTimers>>]_vars

(* ---------- C8 ---------- *)
\* C8: the state right after open(p), from any state, has isOpen = true and
\* selectedProject = p; a step that is an open() never shows isOpen = false.
C8_OpenInOneStep ==
  lastOp.op = "open" => (isModalOpen /\ selectedProject = lastOp.arg)

\* open(p2) was called while the modal was open on another project.
C8_Witness ==
  /\ lastOp.op = "open"
  /\ lastOp.wasOpen
  /\ lastOp.wasSelected \in Projects \ {lastOp.arg}
  /\ isModalOpen
  /\ selectedProject = lastOp.arg

(* ---------- C9 ---------- *)
\* C9: an Escape press while the modal is open is exactly one
\* handleCloseModal() call (same ModalState, close-delay timers, scroll lock
\* and listeners); an Escape press while it is closed changes nothing; any
\* other key leaves ModalState unchanged.
C9_EscapeIsClose ==
  [][/\ (lastOp'.op = "escape" /\ mounted /\ isModalOpen) => CloseCalls(1)
     /\ (lastOp'.op = "escape" /\ ~isModalOpen) => UNCHANGED progVars
     /\ lastOp'.op = "key" => UNCHANGED progVars]_vars

\* Escape has just closed an open modal and scheduled its close-delay timer.
C9_Witness ==
  /\ lastOp.op = "escape"
  /\ lastOp.wasOpen
  /\ ~isModalOpen
  /\ selectedProject = lastOp.wasSelected
  /\ selectedProject # None
  /\ closeTimers = 1
  /\ overflow = "unset"
  /\ listeners = 0

(* ---------- C10 ---------- *)
\* C10: while mounted exactly one keydown listener is installed when isOpen
\* is true and none when it is false; there is never more than one; one
\* Escape press schedules at most one close-delay timer.
C10_OneListener ==
  /\ [](listeners <= 1 /\ (mounted => listeners = BoolArg(isModalOpen)))
  /\ [][lastOp'.op = "escape" => closeTimers' <= closeTimers + 1]_vars

\* The effect has re-run for a new onClose identity while the modal stayed
\* open: still one listener.
C10_Witness ==
  /\ lastOp.op = "flush"
  /\ lastOp.wasOpen
  /\ isModalOpen
  /\ ~modalEffectPending
  /\ selectedProject = None
  /\ listeners = 1

(* ---------- C11 ---------- *)
\* C11: while mounted, scroll is locked (overflow hidden) exactly when isOpen
\* is true; a close of an open modal releases the lock in its own step,
\* while the close-delay timer it scheduled is still pending.
C11_ScrollLockIffOpen ==
  /\ [](mounted => (overflow = "hidden" <=> isModalOpen))
  /\ [][(lastOp'.op \in {"close", "escape"} /\ mounted /\ isModalOpen) =>
          (overflow' = "unset" /\ closeTimers' > 0
             /\ selectedProject' = selectedProject)]_vars

\* A close has just released the lock; the project is still selected and the
\* close-delay timer is pending.
C11_Witness ==
  /\ lastOp.op = "close"
  /\ lastOp.wasOpen
  /\ overflow = "unset"
  /\ selectedProject # None
  /\ closeTimers = 1

(* ---------- C12 ---------- *)
\* C12: after teardown, from any state, no keydown listener is installed and
\* scroll is unlocked.
C12_TeardownRestores == ~mounted => (listeners = 0 /\ overflow = "unset")

\* The page was torn down while the modal was open.
C12_Witness ==
  /\ ~mounted
  /\ lastOp.op = "unmount"
  /\ lastOp.wasOpen
  /\ lastOp.wasSelected # None

(* ---------- C13 ---------- *)
\* C13: with an empty texts no tick raises an error, displayText stays "" and
\* currentIndex stays a number.
C13_EmptyTextsFailSafe ==
  Len(texts) = 0 => (~threw /\ displayText = <<>> /\ currentIndex # NaN)

(* ---------- C14 ---------- *)
\* C14: for non-empty texts, while mounted, some timer is pending or an
\* effect run is due; every texts[i] is displayed in full infinitely often
\* and displayText is empty infinitely often.
C14_LoopsForever ==
  /\ []((mounted /\ Len(texts) > 0) =>
          (timeout # NoTimer \/ delayTimers > 0 \/ twEffectPending))
  /\ \A i \in 1..MaxTexts :
       []<>(\/ ~mounted
            \/ i > Len(texts)
            \/ (currentIndex = i - 1 /\ displayText = texts[i] /\ ~isDeleting))
  /\ []<>(~mounted \/ Len(texts) = 0 \/ (displayText = <<>> /\ ~isDeleting))

(* ---------- C15 ---------- *)
\* C15: open, close, key presses and the close-delay timer change neither
\* the typewriter state nor its pending tick and pause timers; typewriter
\* ticks and pause firings do not change ModalState.
C15_NoInterference ==
  /\ [][lastOp'.op \in {"open", "close", "escape", "key", "closeTimer"} =>
          UNCHANGED <<displayText, currentIndex, isDeleting, timeout,
                      delayTimers>>]_vars
  /\ [][lastOp'.op \in {"tick", "pause"} => UNCHANGED modalState]_vars

(* ---------- C16 ---------- *)
\* C16: at most one typewriter timer (tick or pause) is pending, and a
\* pending tick was scheduled for the state currently displayed.
C16_OneTimer ==
  /\ Cardinality(timeout) + delayTimers <= 1
  /\ \A c \in timeout : c = TickClosure(displayText, currentIndex, isDeleting)

\* A tick armed the pause timer while a Home re-render's effect run was still
\* due: the pause timer is the only timer pending.
C16_Witness ==
  /\ lastOp.op = "tick"
  /\ twEffectPending
  /\ delayTimers = 1
  /\ timeout = NoTimer

(* ---------- C17 ---------- *)
\* C17: for non-empty texts, isDeleting turns true only in a pause-timer
\* firing; a pause timer is pending only in the typing phase on the complete
\* string; a complete string in the typing phase is left unchanged by every
\* step.
C17_DeleteAfterPause ==
  /\ [][(~isDeleting /\ isDeleting') => lastOp'.op = "pause"]_vars
  /\ []((Len(texts) > 0 /\ delayTimers > 0) =>
          (~isDeleting /\ displayText = currentText))
  /\ [][(Len(texts) > 0 /\ ~isDeleting /\ displayText = currentText) =>
          UNCHANGED <<displayText, currentIndex>>]_vars

\* The pause timer has just fired on a complete 2-character string.
C17_Witness ==
  /\ lastOp.op = "pause"
  /\ isDeleting
  /\ twEffectPending
  /\ displayText = currentText
  /\ Len(displayText) = 2

(* ---------- C18 ---------- *)
\* C18: open() queues the focus callback and does not move focus itself; the
\* callback focuses the close button when it is rendered; when it is not,
\* the callback raises no error and changes nothing.
C18_DeferredFocus ==
  /\ [][lastOp'.op = "open" => (rafPending' /\ focus' = focus)]_vars
  /\ [][(lastOp'.op = "raf" /\ mounted
           /\ dialogRendered(isModalOpen, selectedProject)) =>
          focus' = "closeBtn"]_vars
  /\ [][(lastOp'.op = "raf"
           /\ ~(mounted /\ dialogRendered(isModalOpen, selectedProject))) =>
          UNCHANGED <<texts, displayText, currentIndex, isDeleting, timeout,
                      delayTimers, delayLive, threw, twEffectPending,
                      selectedProject, isModalOpen, closeTimers, overflow,
                      listeners, effectOpen, modalEffectPending, mounted,
                      focus>>]_vars

\* The focus callback ran after the modal had been closed again: focus
\* stayed on the page.
C18_Witness ==
  /\ lastOp.op = "raf"
  /\ ~lastOp.wasOpen
  /\ lastOp.wasSelected # None
  /\ mounted
  /\ focus = "page"
  /\ ~threw

(* ---------- C19 ---------- *)
\* C19: while isOpen stays true, selectedProject changes only in an open()
\* step.
C19_SelectionOnlyByOpen ==
  [][(isModalOpen /\ isModalOpen' /\ selectedProject' # selectedProject) =>
       lastOp'.op = "open"]_vars

(* ---------- C20 ---------- *)
\* C20: whenever scroll is locked or a keydown listener is installed, the
\* dialog is rendered: isOpen is true and selectedProject is not none.
C20_LockedImpliesDialog ==
  (overflow = "hidden" \/ listeners > 0) =>
    dialogRendered(isModalOpen, selectedProject)

(* ---------- C21 ---------- *)
\* C21: after the page is torn down no close-delay timer is pending, so none
\* can fire.
C21_NoCloseTimerAfterTeardown == ~mounted => closeTimers = 0

====
